---- MODULE Spec2Model ----
(***************************************************************************)
(* Heap memory manager ("Heap Manager V1/HMM.c").                          *)
(*                                                                         *)
(* The allocator keeps its metadata inside the arena it manages, and casts *)
(* freely between payload pointers and block headers, so the model keeps   *)
(* the arena as bytes and every size_t / pointer as a 64-bit word.         *)
(* A word is a tuple of 8 bytes, least significant first (LP64,            *)
(* little-endian); arithmetic on words is arithmetic modulo 2^64.          *)
(***************************************************************************)
EXTENDS Integers, Sequences, FiniteSets, TLC

(***************************************************************************)
(* 64-bit words                                                            *)
(***************************************************************************)
Pow256(k) == CASE k = 0 -> 1 [] k = 1 -> 256 [] k = 2 -> 65536 [] OTHER -> 16777216

\* the word of a natural number below 2^31
W(n) == [i \in 1..8 |-> IF i <= 4 THEN (n \div Pow256(i - 1)) % 256 ELSE 0]

\* a word that fits a model integer, and that integer
Small(w) == w[5] = 0 /\ w[6] = 0 /\ w[7] = 0 /\ w[8] = 0 /\ w[4] < 128
ToInt(w) == w[1] + 256 * w[2] + 65536 * w[3] + 16777216 * w[4]

RECURSIVE AddC(_, _, _, _)
AddC(a, b, i, c) ==
    IF i > 8 THEN <<>>
    ELSE LET s == a[i] + b[i] + c IN <<s % 256>> \o AddC(a, b, i + 1, s \div 256)

\* a + b, a - b and -a modulo 2^64
Add(a, b) == AddC(a, b, 1, 0)
Not(a) == [i \in 1..8 |-> 255 - a[i]]
Neg(a) == Add(Not(a), W(1))
Sub(a, b) == Add(a, Neg(b))

RECURSIVE LtFrom(_, _, _)
LtFrom(a, b, i) ==
    IF i = 0 THEN FALSE
    ELSE IF a[i] # b[i] THEN a[i] < b[i]
    ELSE LtFrom(a, b, i - 1)

\* unsigned comparison
Lt(a, b) == LtFrom(a, b, 8)
Le(a, b) == ~Lt(b, a)

RECURSIVE DivC(_, _, _, _)
DivC(a, d, i, r) ==
    IF i = 0 THEN <<>>
    ELSE LET cur == r * 256 + a[i] IN DivC(a, d, i - 1, cur % d) \o <<cur \div d>>

\* a / d for a divisor 1..255 (unsigned division)
DivSmall(a, d) == DivC(a, d, 8, 0)

RECURSIVE MulC(_, _, _, _)
MulC(a, m, i, c) ==
    IF i > 8 THEN <<>>
    ELSE LET s == a[i] * m + c IN <<s % 256>> \o MulC(a, m, i + 1, s \div 256)

\* a * m modulo 2^64 for a factor 0..255
MulSmall(a, m) == MulC(a, m, 1, 0)

\* the low bit, and the word with the low bit cleared / set
LowBit(a) == a[1] % 2
ClearLow(a) == [a EXCEPT ![1] = a[1] - (a[1] % 2)]
SetLow(a) == [a EXCEPT ![1] = a[1] - (a[1] % 2) + 1]

\* an address the model's arena can reach (below 2^30)
InModel(w) == Small(w) /\ w[4] < 64

\* the word read as a signed 64-bit integer is negative
Negative(a) == a[8] >= 128

(***************************************************************************)
(* Program constants                                                       *)
(***************************************************************************)
HEAP_EXPAND_SIZE == 1048576
MIN_ALLOC_SIZE == 40
ALIGNMENT == 8
\* sizeof(block_metadata_t) on LP64: size_t, two pointers, unsigned + padding
HeaderSize == 32
\* 0xDEADBEEF as the four bytes of the unsigned int field
MAGIC_NUMBER == <<239, 190, 173, 222>>
NULL == W(0)

\* the program break when the process starts, and sbrk's failure value (void*)-1
InitialBreak == W(16 * 4096)
SbrkFailed == Not(W(0))

(***************************************************************************)
(* The arena as bytes.  mem holds the non-zero bytes of [InitialBreak,brk) *)
(* (fresh break memory reads as zero); an access outside that range is     *)
(* outside the model and ends the run with fault "wild".                   *)
(***************************************************************************)
Mapped(s, p, n) ==
    /\ InModel(p)
    /\ Le(InitialBreak, p)
    /\ Le(Add(p, W(n)), s.brk)

RdB(m, a) == IF a \in DOMAIN m THEN m[a] ELSE 0
Rd(m, p, n) == [i \in 1..n |-> IF InModel(p) THEN RdB(m, ToInt(p) + i - 1) ELSE 0]

\* m with the bytes v stored from integer address a on
WrAt(m, a, v) ==
    [x \in (DOMAIN m \ (a..(a + Len(v) - 1)))
            \cup {y \in a..(a + Len(v) - 1) : v[y - a + 1] # 0}
       |-> IF x \in a..(a + Len(v) - 1) THEN v[x - a + 1] ELSE m[x]]

Wr(m, p, v) == WrAt(m, ToInt(p), v)

Fault(s, f) == IF s.fault = "none" THEN [s EXCEPT !.fault = f] ELSE s

\* *p = v
Store(s, p, v) ==
    IF s.fault # "none" THEN s
    ELSE IF ~Mapped(s, p, Len(v)) THEN Fault(s, "wild")
    ELSE [s EXCEPT !.mem = Wr(s.mem, p, v)]

\* the fields of the block_metadata_t at address b
size_and_flags(s, b) == Rd(s.mem, b, 8)
prevOf(s, b) == Rd(s.mem, Add(b, W(8)), 8)
nextOf(s, b) == Rd(s.mem, Add(b, W(16)), 8)
magicOf(s, b) == Rd(s.mem, Add(b, W(24)), 4)
SetSizeAndFlags(s, b, v) == Store(s, b, v)
SetPrev(s, b, v) == Store(s, Add(b, W(8)), v)
SetNext(s, b, v) == Store(s, Add(b, W(16)), v)
SetMagic(s, b, v) == Store(s, Add(b, W(24)), v)
\* size_and_flags & SIZE_MASK
SizeOf(s, b) == ClearLow(size_and_flags(s, b))
IsFree(s, b) == LowBit(size_and_flags(s, b)) = 1

(***************************************************************************)
(* The allocator.  s is the process state: the arena bytes, the break and  *)
(* its limit, and the five static variables of HMM.c.  A function that     *)
(* returns a value yields [st, ret].  The statements of a function are     *)
(* applied one after the other, each to the state its predecessor left.    *)
(***************************************************************************)

\* sbrk(2): grants the increment unless it takes the break beyond the
\* process limit or below the start of the data segment
sbrk(s, increment) ==
    IF IF Negative(increment)
       THEN Le(Neg(increment), Sub(s.brk, InitialBreak))
       ELSE Le(s.brk, s.limit) /\ Le(increment, Sub(s.limit, s.brk))
    THEN [st |-> [s EXCEPT !.brk = Add(s.brk, increment)], ret |-> s.brk]
    ELSE [st |-> s, ret |-> SbrkFailed]

\* hmm_sbrk, given what sbrk returned
hmm_sbrk_result(r) ==
    IF r.ret = SbrkFailed
    THEN [st |-> [r.st EXCEPT !.last_error = "HMM_ERROR_OUT_OF_MEMORY"], ret |-> NULL]
    ELSE r

hmm_sbrk(s, increment) == hmm_sbrk_result(sbrk(s, increment))

\* free_list_head = block
SetHead(s, block) == [s EXCEPT !.free_list_head = block]

\* if (free_list_head) free_list_head->prev = block
LinkOldHead(s, block) ==
    IF s.free_list_head # NULL THEN SetPrev(s, s.free_list_head, block) ELSE s

\* block->next = free_list_head; block->prev = NULL; link the old head back
\* to block; free_list_head = block
PushFront(s, block) ==
    SetHead(LinkOldHead(SetPrev(SetNext(s, block, s.free_list_head), block, NULL), block),
            block)

\* hmm_init after hmm_sbrk returned r (the assignment to heap_start included)
hmm_init_arena(r) ==
    IF r.ret = NULL THEN [r.st EXCEPT !.heap_start = NULL]
    ELSE SetHead(
           SetNext(
             SetPrev(
               SetMagic(
                 SetSizeAndFlags(
                   [r.st EXCEPT !.heap_start = r.ret,
                                !.heap_end = Add(r.ret, W(HEAP_EXPAND_SIZE))],
                   r.ret, SetLow(W(HEAP_EXPAND_SIZE - HeaderSize))),
                 r.ret, MAGIC_NUMBER),
               r.ret, NULL),
             r.ret, NULL),
           r.ret)

\* hmm_init without its test of heap_start
hmm_init_unguarded(s) == hmm_init_arena(hmm_sbrk(s, W(HEAP_EXPAND_SIZE)))

hmm_init(s) ==
    IF s.heap_start = NULL THEN hmm_init_arena(hmm_sbrk(s, W(HEAP_EXPAND_SIZE))) ELSE s

\* ExpandSize without the minimum growth increment
ExpandSize_unfloored(size) ==
    MulSmall(DivSmall(Add(Add(size, W(HeaderSize)), W(ALIGNMENT - 1)), ALIGNMENT), ALIGNMENT)

\* the amount hmm_expand_heap asks the system for
ExpandSize(size) ==
    LET e == MulSmall(DivSmall(Add(Add(size, W(HeaderSize)), W(ALIGNMENT - 1)),
                               ALIGNMENT), ALIGNMENT)
    IN IF Lt(e, W(HEAP_EXPAND_SIZE)) THEN W(HEAP_EXPAND_SIZE) ELSE e

\* heap_end = new_mem + expand_size
SetHeapEnd(s, e) == [s EXCEPT !.heap_end = e]

\* hmm_expand_heap_block moving heap_end also when hmm_sbrk returned null
hmm_expand_heap_block_partial(r, expand_size) ==
    IF r.ret = NULL
    THEN [st |-> SetHeapEnd(r.st, Add(r.st.heap_end, expand_size)), ret |-> NULL]
    ELSE [st |-> SetHeapEnd(
                   PushFront(
                     SetMagic(
                       SetSizeAndFlags(r.st, r.ret, SetLow(Sub(expand_size, W(HeaderSize)))),
                       r.ret, MAGIC_NUMBER),
                     r.ret),
                   Add(r.ret, expand_size)),
          ret |-> r.ret]

\* hmm_expand_heap after hmm_sbrk returned r
hmm_expand_heap_block(r, expand_size) ==
    IF r.ret = NULL THEN [st |-> r.st, ret |-> NULL]
    ELSE [st |-> SetHeapEnd(
                   PushFront(
                     SetMagic(
                       SetSizeAndFlags(r.st, r.ret, SetLow(Sub(expand_size, W(HeaderSize)))),
                       r.ret, MAGIC_NUMBER),
                     r.ret),
                   Add(r.ret, expand_size)),
          ret |-> r.ret]

hmm_expand_heap(s, size) ==
    hmm_expand_heap_block(hmm_sbrk(s, ExpandSize(size)), ExpandSize(size))

\* if (block->prev) block->prev->next = block->next; else free_list_head = block->next
UnlinkPrev(s, block) ==
    IF prevOf(s, block) # NULL
    THEN SetNext(s, prevOf(s, block), nextOf(s, block))
    ELSE SetHead(s, nextOf(s, block))

\* if (block->next) block->next->prev = block->prev
UnlinkNext(s, block) ==
    IF s.fault = "none" /\ nextOf(s, block) # NULL
    THEN SetPrev(s, nextOf(s, block), prevOf(s, block))
    ELSE s

hmm_remove_from_free_list(s, block) ==
    IF s.fault # "none" THEN s
    ELSE IF ~Mapped(s, block, HeaderSize) THEN Fault(s, "wild")
    ELSE SetNext(SetPrev(UnlinkNext(UnlinkPrev(s, block), block), block, NULL), block, NULL)

\* BetterFit with the comparisons of the two policies exchanged
BetterFit_swapped(s, block, best) ==
    \/ best = NULL
    \/ s.current_algorithm = "BEST_FIT" /\ Lt(SizeOf(s, best), SizeOf(s, block))
    \/ s.current_algorithm = "WORST_FIT" /\ Lt(SizeOf(s, block), SizeOf(s, best))

\* the tests of the BEST_FIT and WORST_FIT cases of hmm_find_free_block:
\* !best || block_size < best's size, !best || block_size > best's size
BetterFit(s, block, best) ==
    \/ best = NULL
    \/ s.current_algorithm = "BEST_FIT" /\ Lt(SizeOf(s, block), SizeOf(s, best))
    \/ s.current_algorithm = "WORST_FIT" /\ Lt(SizeOf(s, best), SizeOf(s, block))

\* the loop of hmm_find_free_block from `block` on; seen holds the blocks
\* already visited in this scan (the list is not changed by the scan, so a
\* block met twice means the scan never ends)
RECURSIVE find_free_block_from(_, _, _, _, _)
find_free_block_from(s, size, block, best, seen) ==
    IF block = NULL THEN [st |-> s, ret |-> best]
    ELSE IF block \in seen THEN [st |-> Fault(s, "hang"), ret |-> NULL]
    ELSE IF ~Mapped(s, block, HeaderSize) THEN [st |-> Fault(s, "wild"), ret |-> NULL]
    ELSE IF magicOf(s, block) # MAGIC_NUMBER \/ ~IsFree(s, block)
         THEN [st |-> Fault(s, "assert"), ret |-> NULL]
    ELSE IF Le(size, SizeOf(s, block))
         THEN CASE s.current_algorithm = "FIRST_FIT" ->
                     [st |-> s, ret |-> block]
                [] s.current_algorithm \in {"BEST_FIT", "WORST_FIT"} ->
                     find_free_block_from(s, size, nextOf(s, block),
                         IF BetterFit(s, block, best) THEN block ELSE best,
                         seen \cup {block})
         ELSE find_free_block_from(s, size, nextOf(s, block), best, seen \cup {block})

\* hmm_find_free_block looking at the head of the free list only
hmm_find_free_block_head_only(s, size) ==
    IF s.free_list_head = NULL THEN [st |-> s, ret |-> NULL]
    ELSE IF ~Mapped(s, s.free_list_head, HeaderSize) THEN [st |-> Fault(s, "wild"), ret |-> NULL]
    ELSE IF Le(size, SizeOf(s, s.free_list_head)) THEN [st |-> s, ret |-> s.free_list_head]
    ELSE [st |-> s, ret |-> NULL]

hmm_find_free_block(s, size) ==
    find_free_block_from(s, size, s.free_list_head, NULL, {})

\* the body of the if of hmm_split_block; new_block is block + header + size
hmm_split_block_at(s, block, size, new_block, new_size) ==
    hmm_remove_from_free_list(
      SetSizeAndFlags(
        PushFront(
          SetMagic(SetSizeAndFlags(s, new_block, SetLow(ClearLow(new_size))),
                   new_block, MAGIC_NUMBER),
          new_block),
        block, ClearLow(size)),
      block)

hmm_split_block(s, block, size) ==
    IF s.fault # "none" THEN s
    ELSE IF ~Mapped(s, block, HeaderSize) THEN Fault(s, "wild")
    ELSE IF Le(W(MIN_ALLOC_SIZE + HeaderSize), Sub(SizeOf(s, block), size))
         THEN hmm_split_block_at(s, block, size,
                                 Add(Add(block, W(HeaderSize)), size),
                                 Sub(Sub(SizeOf(s, block), size), W(HeaderSize)))
         ELSE s

\* the request rounded up to ALIGNMENT and raised to MIN_ALLOC_SIZE
Normalize(size) ==
    LET a == MulSmall(DivSmall(Add(size, W(ALIGNMENT - 1)), ALIGNMENT), ALIGNMENT)
    IN IF Lt(a, W(MIN_ALLOC_SIZE)) THEN W(MIN_ALLOC_SIZE) ELSE a

\* hmm_internal_alloc once a block e.ret was found or grown
hmm_internal_alloc_split(e, size) ==
    IF e.ret = NULL THEN [st |-> e.st, ret |-> NULL]
    ELSE [st |-> hmm_split_block(e.st, e.ret, size), ret |-> Add(e.ret, W(HeaderSize))]

\* hmm_internal_alloc after hmm_find_free_block returned f
hmm_internal_alloc_found(f, size) ==
    hmm_internal_alloc_split(
        IF f.ret = NULL /\ f.st.fault = "none" THEN hmm_expand_heap(f.st, size) ELSE f,
        size)

hmm_internal_alloc(s, size) ==
    IF size = W(0) THEN [st |-> s, ret |-> NULL]
    ELSE hmm_internal_alloc_found(hmm_find_free_block(s, Normalize(size)), Normalize(size))

\* a->size_and_flags = (a->size_and_flags & SIZE_MASK) + (b->size_and_flags & SIZE_MASK)
\*                     + sizeof(block_metadata_t)
AddSizes(s, a, b) ==
    SetSizeAndFlags(s, a, Add(Add(SizeOf(s, a), SizeOf(s, b)), W(HeaderSize)))

\* a->size_and_flags |= IS_FREE_MASK
MarkFree(s, a) ==
    IF s.fault # "none" THEN s ELSE SetSizeAndFlags(s, a, SetLow(size_and_flags(s, a)))

\* the scan of hmm_coalesce at `curr`, merging around `block`; seen holds the
\* configurations of the scan met so far (one met twice means it never ends)
RECURSIVE coalesce_from(_, _, _, _)
coalesce_from(s, block, curr, seen) ==
    IF s.fault # "none" \/ curr = NULL THEN s
    ELSE IF <<curr, block, s.mem, s.free_list_head>> \in seen THEN Fault(s, "hang")
    ELSE IF ~Mapped(s, curr, HeaderSize) \/ ~Mapped(s, block, HeaderSize)
         THEN Fault(s, "wild")
    ELSE IF Add(Add(curr, SizeOf(s, curr)), W(HeaderSize)) = block
         THEN coalesce_from(
                  hmm_remove_from_free_list(MarkFree(AddSizes(s, curr, block), curr), block),
                  curr, nextOf(s, curr),
                  seen \cup {<<curr, block, s.mem, s.free_list_head>>})
    ELSE IF Add(Add(block, SizeOf(s, block)), W(HeaderSize)) = curr
         THEN coalesce_from(
                  hmm_remove_from_free_list(MarkFree(AddSizes(s, block, curr), block), curr),
                  block, nextOf(s, curr),
                  seen \cup {<<curr, block, s.mem, s.free_list_head>>})
    ELSE coalesce_from(s, block, nextOf(s, curr),
                       seen \cup {<<curr, block, s.mem, s.free_list_head>>})

hmm_coalesce(s, block) == coalesce_from(s, block, s.free_list_head, {})

\* ptr is used as the address of a block_metadata_t, as the code does
hmm_internal_free(s, ptr) ==
    IF ptr = NULL THEN s
    ELSE IF ~Mapped(s, ptr, HeaderSize) THEN Fault(s, "wild")
    ELSE IF magicOf(s, ptr) # MAGIC_NUMBER
         THEN [s EXCEPT !.last_error = "HMM_ERROR_INVALID_POINTER"]
    ELSE IF IsFree(s, ptr)
         THEN [s EXCEPT !.last_error = "HMM_ERROR_DOUBLE_FREE"]
    ELSE hmm_coalesce(PushFront(MarkFree(s, ptr), ptr), ptr)

\* HmmAlloc after hmm_internal_alloc returned r
HmmAlloc_result(r) ==
    IF r.ret = NULL /\ r.st.fault = "none"
    THEN [st |-> [r.st EXCEPT !.last_error = "HMM_ERROR_OUT_OF_MEMORY"], ret |-> NULL]
    ELSE r

HmmAlloc(s, size) == HmmAlloc_result(hmm_internal_alloc(s, size))

\* HmmFree without its check of the sentinel
HmmFree_unchecked(s, ptr) ==
    IF s.fault # "none" \/ ptr = NULL THEN s
    ELSE IF ~Mapped(s, Sub(ptr, W(HeaderSize)), HeaderSize) THEN Fault(s, "wild")
    ELSE IF IsFree(s, Sub(ptr, W(HeaderSize)))
         THEN [s EXCEPT !.last_error = "HMM_ERROR_DOUBLE_FREE"]
    ELSE hmm_internal_free(s, ptr)

HmmFree(s, ptr) ==
    IF s.fault # "none" \/ ptr = NULL THEN s
    ELSE IF ~Mapped(s, Sub(ptr, W(HeaderSize)), HeaderSize) THEN Fault(s, "wild")
    ELSE IF magicOf(s, Sub(ptr, W(HeaderSize))) # MAGIC_NUMBER
         THEN [s EXCEPT !.last_error = "HMM_ERROR_INVALID_POINTER"]
    ELSE IF IsFree(s, Sub(ptr, W(HeaderSize)))
         THEN [s EXCEPT !.last_error = "HMM_ERROR_DOUBLE_FREE"]
    ELSE hmm_internal_free(s, ptr)

hmm_get_last_error(s) == s.last_error

hmm_set_allocation_algorithm(s, algorithm) == [s EXCEPT !.current_algorithm = algorithm]

malloc(s, size) ==
    HmmAlloc(IF s.heap_start = NULL THEN hmm_init(s) ELSE s, size)

free(s, ptr) == HmmFree(s, ptr)

\* the column sums of the 128-bit product a * b, least significant byte first
RECURSIVE ColSum(_, _, _, _)
ColSum(a, b, k, i) ==
    IF i > 8 THEN 0
    ELSE (IF k + 1 - i \in 1..8 THEN a[i] * b[k + 1 - i] ELSE 0) + ColSum(a, b, k, i + 1)

RECURSIVE MulCols(_, _, _, _)
MulCols(a, b, k, c) ==
    IF k > 16 THEN <<>>
    ELSE <<(ColSum(a, b, k, 1) + c) % 256>>
         \o MulCols(a, b, k + 1, (ColSum(a, b, k, 1) + c) \div 256)

\* the 16 bytes of a product: its low word, and whether the high word is non-zero
Product(p) == [res |-> SubSeq(p, 1, 8), overflow |-> \E i \in 9..16 : p[i] # 0]

\* __builtin_mul_overflow(a, b, &res): the wrapped product and the overflow flag
mul_overflow(a, b) == Product(MulCols(a, b, 1, 0))

\* the n bytes at p lie inside the arena
MappedRange(s, p, n) == Mapped(s, p, 0) /\ Le(n, Sub(s.brk, p))

\* memset(p, 0, n)
memset0(s, p, n) ==
    IF s.fault # "none" \/ n = W(0) THEN s
    ELSE IF ~MappedRange(s, p, n) THEN Fault(s, "wild")
    ELSE [s EXCEPT !.mem =
            [x \in {y \in DOMAIN s.mem : y < ToInt(p) \/ y >= ToInt(p) + ToInt(n)}
               |-> s.mem[x]]]

\* the bytes of m after copying k bytes from f to d (ranges apart)
CopyBytes(m, d, f, k) ==
    [x \in {y \in DOMAIN m : y < d \/ y >= d + k}
           \cup {y - f + d : y \in {z \in DOMAIN m : f <= z /\ z < f + k}}
       |-> IF d <= x /\ x < d + k THEN m[x - d + f] ELSE m[x]]

\* memcpy(dst, src, n); overlapping ranges are undefined behaviour
memcpy(s, dst, src, n) ==
    IF s.fault # "none" \/ n = W(0) THEN s
    ELSE IF ~MappedRange(s, dst, n) \/ ~MappedRange(s, src, n) THEN Fault(s, "wild")
    ELSE IF ToInt(dst) < ToInt(src) + ToInt(n) /\ ToInt(src) < ToInt(dst) + ToInt(n)
         THEN Fault(s, "overlap")
    ELSE [s EXCEPT !.mem = CopyBytes(s.mem, ToInt(dst), ToInt(src), ToInt(n))]

\* calloc after malloc returned r
calloc_result(r, total_size) ==
    IF r.ret # NULL THEN [st |-> memset0(r.st, r.ret, total_size), ret |-> r.ret] ELSE r

\* calloc_product ignoring the overflow flag
calloc_product_unchecked(s, m) == calloc_result(malloc(s, m.res), m.res)

\* calloc after the multiplication gave m
calloc_product(s, m) ==
    IF m.overflow
    THEN [st |-> [s EXCEPT !.last_error = "HMM_ERROR_OUT_OF_MEMORY"], ret |-> NULL]
    ELSE calloc_result(malloc(s, m.res), m.res)

calloc(s, nmemb, size) == calloc_product(s, mul_overflow(nmemb, size))

\* realloc_move releasing the old block also when malloc returned null
realloc_move_frees(r, ptr, old_size) ==
    IF r.ret = NULL
    THEN [st |-> hmm_internal_free(r.st, Sub(ptr, W(HeaderSize))), ret |-> NULL]
    ELSE [st |-> free(memcpy(r.st, r.ret, ptr, old_size), ptr), ret |-> r.ret]

\* realloc after malloc returned r: copy, release the old block
realloc_move(r, ptr, old_size) ==
    IF r.ret = NULL THEN r
    ELSE [st |-> free(memcpy(r.st, r.ret, ptr, old_size), ptr), ret |-> r.ret]

\* realloc without its in-place branch
realloc_always_moves(s, ptr, size) ==
    IF ptr = NULL THEN malloc(s, size)
    ELSE IF size = W(0) THEN [st |-> free(s, ptr), ret |-> NULL]
    ELSE IF ~Mapped(s, Sub(ptr, W(HeaderSize)), HeaderSize)
         THEN [st |-> Fault(s, "wild"), ret |-> NULL]
    ELSE realloc_move(malloc(s, size), ptr, SizeOf(s, Sub(ptr, W(HeaderSize))))

realloc(s, ptr, size) ==
    IF ptr = NULL THEN malloc(s, size)
    ELSE IF size = W(0) THEN [st |-> free(s, ptr), ret |-> NULL]
    ELSE IF ~Mapped(s, Sub(ptr, W(HeaderSize)), HeaderSize)
         THEN [st |-> Fault(s, "wild"), ret |-> NULL]
    ELSE IF Le(size, SizeOf(s, Sub(ptr, W(HeaderSize))))
         THEN [st |-> hmm_split_block(s, Sub(ptr, W(HeaderSize)), size), ret |-> ptr]
    ELSE realloc_move(malloc(s, size), ptr, SizeOf(s, Sub(ptr, W(HeaderSize))))

(***************************************************************************)
(* The process: the allocator's state, and a caller that allocates,        *)
(* writes to what it was given and releases it.                            *)
(***************************************************************************)
VARIABLES
    mem,                \* the non-zero bytes of the arena
    brk,                \* the program break
    limit,              \* the highest break the system grants
    heap_start, heap_end, free_list_head, last_error, current_algorithm,
    fault,              \* "none", or why the process stopped
    live,               \* the caller's allocations: [id, ptr, size]
    freed,              \* what the caller released since its last allocation:
                        \* [ptr, size (of the block then), was_live]
    last,               \* the last call: [op, ptr, size, ret, was_live, again,
                        \* released (the value of freed at the call), id]
    pre,                \* the allocator's state when the last call was made
    nops                \* number of calls made

vars == <<mem, brk, limit, heap_start, heap_end, free_list_head, last_error,
          current_algorithm, fault, live, freed, last, pre, nops>>

\* number of calls in a run
MaxOps == 3

Cur == [mem |-> mem, brk |-> brk, limit |-> limit, heap_start |-> heap_start,
        heap_end |-> heap_end, free_list_head |-> free_list_head,
        last_error |-> last_error, current_algorithm |-> current_algorithm,
        fault |-> fault]

Becomes(s) ==
    /\ mem' = s.mem
    /\ brk' = s.brk
    /\ limit' = s.limit
    /\ heap_start' = s.heap_start
    /\ heap_end' = s.heap_end
    /\ free_list_head' = s.free_list_head
    /\ last_error' = s.last_error
    /\ current_algorithm' = s.current_algorithm
    /\ fault' = s.fault

HeaderOf(ptr) == Sub(ptr, W(HeaderSize))
PayloadOf(block) == Add(block, W(HeaderSize))

Call(op, ptr, size, ret) ==
    /\ last' = [op |-> op, ptr |-> ptr, size |-> size, ret |-> ret,
                was_live |-> \E l \in live : l.ptr = ptr,
                again |-> \E f \in freed : f.ptr = ptr /\ f.was_live,
                released |-> freed,
                id |-> nops + 1]
    /\ pre' = Cur
    /\ nops' = nops + 1

\* an allocating call returned r: the caller keeps the pointer
Allocated(op, ptr, size, r) ==
    /\ Becomes(r.st)
    /\ Call(op, ptr, size, r.ret)
    /\ live' = IF r.ret # NULL /\ r.st.fault = "none"
               THEN live \cup {[id |-> nops + 1, ptr |-> r.ret, size |-> size]}
               ELSE live
    /\ freed' = {}

\* a releasing call left state s: the caller forgets the pointer
Released(op, ptr, s) ==
    /\ Becomes(s)
    /\ Call(op, ptr, NULL, NULL)
    /\ live' = {l \in live : l.ptr # ptr}
    /\ freed' = IF ptr = NULL THEN freed
                ELSE freed \cup {[ptr |-> ptr, size |-> SizeOf(Cur, HeaderOf(ptr)),
                                  was_live |-> \E l \in live : l.ptr = ptr]}

\* what the system grants: one growth increment, or several
Limits == {Add(InitialBreak, W(HEAP_EXPAND_SIZE)),
           Add(InitialBreak, W(4 * HEAP_EXPAND_SIZE))}

\* request sizes: zero, small, and sizes around the initial block's payload
AllocSizes == {W(0), W(8), W(128), W(HEAP_EXPAND_SIZE - HeaderSize), W(HEAP_EXPAND_SIZE)}

\* request sizes for malloc, which differs from HmmAlloc only before hmm_init
MallocSizes == {W(0), W(8)}

\* new sizes for realloc: release, shrink (even and odd), grow, and grow
\* beyond what the free list holds
ReallocSizes == {W(0), W(8), W(41), W(256), W(HEAP_EXPAND_SIZE)}

\* pointers a caller passes to realloc: its allocations, null, and a pointer
\* into the middle of one of its allocations
ReallocArgs == {l.ptr : l \in live} \cup {NULL}
               \cup {Add(l.ptr, W(HeaderSize)) : l \in live}

\* calloc(nmemb, size): a small array, an empty one, and products beyond
\* 2^64: (2^64 - 1) * 2, and (2^61 + 1) * 8 which wraps to 8
CallocArgs == {<<W(2), W(8)>>, <<W(0), W(8)>>, <<Not(W(0)), W(2)>>,
               <<<<1, 0, 0, 0, 0, 0, 0, 32>>, W(8)>>}

Algorithms == {"FIRST_FIT", "BEST_FIT", "WORST_FIT"}

\* pointers a caller passes to free: its allocations, pointers it released
\* before, null, and a pointer into the middle of one of its allocations
FreeArgs == {l.ptr : l \in live} \cup {f.ptr : f \in freed} \cup {NULL}
            \cup {Add(l.ptr, W(HeaderSize)) : l \in live}

\* what a caller stores in its allocation: <<offset, bytes>>
\* (a word that reads as a size with the low bit set or clear, and the bytes
\* of the sentinel where a header would keep it)
UserStores == {<<0, W(41)>>, <<0, W(48)>>, <<24, MAGIC_NUMBER>>}

\* the process before its first call
Start ==
    /\ mem = <<>>
    /\ brk = InitialBreak
    /\ heap_start = NULL
    /\ heap_end = NULL
    /\ free_list_head = NULL
    /\ last_error = "HMM_SUCCESS"
    /\ current_algorithm = "FIRST_FIT"
    /\ fault = "none"
    /\ live = {}
    /\ freed = {}
    /\ last = [op |-> "start", ptr |-> NULL, size |-> NULL, ret |-> NULL,
               was_live |-> FALSE, again |-> FALSE, released |-> {}, id |-> 0]
    /\ pre = Cur
    /\ nops = 0

Init == limit \in Limits /\ Start

Running == fault = "none"

Do_hmm_init ==
    /\ Running
    /\ Becomes(hmm_init(Cur))
    /\ Call("hmm_init", NULL, NULL, NULL)
    /\ UNCHANGED <<live, freed>>

Do_HmmAlloc(sizes) ==
    /\ Running
    /\ \E size \in sizes : Allocated("HmmAlloc", NULL, size, HmmAlloc(Cur, size))

Do_HmmFree(ptrs) ==
    /\ Running
    /\ \E ptr \in ptrs : Released("HmmFree", ptr, HmmFree(Cur, ptr))

Do_malloc ==
    /\ Running
    /\ \E size \in MallocSizes : Allocated("malloc", NULL, size, malloc(Cur, size))

Do_free ==
    /\ Running
    /\ \E l \in live : Released("free", l.ptr, free(Cur, l.ptr))

Do_calloc ==
    /\ Running
    /\ \E a \in CallocArgs :
          Allocated("calloc", a[1], a[2], calloc(Cur, a[1], a[2]))

\* realloc returned r: the caller holds r.ret, and no longer holds ptr unless
\* the call failed (r.ret = NULL with a non-zero size)
Reallocated(ptr, size, r) ==
    /\ Becomes(r.st)
    /\ Call("realloc", ptr, size, r.ret)
    /\ live' = IF r.st.fault # "none" THEN live
               ELSE IF r.ret = NULL /\ size # W(0) THEN live
               ELSE {l \in live : l.ptr # ptr}
                    \cup (IF r.ret = NULL THEN {}
                          ELSE {[id |-> nops + 1, ptr |-> r.ret, size |-> size]})
    /\ freed' = {}

Do_realloc ==
    /\ Running
    /\ \E ptr \in ReallocArgs : \E size \in ReallocSizes :
          Reallocated(ptr, size, realloc(Cur, ptr, size))

Do_set_algorithm ==
    /\ Running
    /\ \E a \in Algorithms \ {current_algorithm} :
          /\ Becomes(hmm_set_allocation_algorithm(Cur, a))
          /\ Call("hmm_set_allocation_algorithm", NULL, NULL, NULL)
    /\ UNCHANGED <<live, freed>>

\* the caller writes into one of its allocations
Do_store ==
    /\ Running
    /\ \E l \in live : \E u \in UserStores :
          /\ Le(W(u[1] + Len(u[2])), l.size)
          /\ MappedRange(Cur, l.ptr, l.size)
          /\ mem' = Wr(mem, Add(l.ptr, W(u[1])), u[2])
          /\ Call("store", l.ptr, NULL, NULL)
    /\ UNCHANGED <<brk, limit, heap_start, heap_end, free_list_head, last_error,
                   current_algorithm, fault, live, freed>>

\* every public operation, from process start
Next ==
    /\ nops < MaxOps
    /\ \/ Do_hmm_init
       \/ Do_HmmAlloc(AllocSizes)
       \/ Do_HmmFree(FreeArgs)
       \/ Do_malloc
       \/ Do_free
       \/ Do_calloc
       \/ Do_realloc
       \/ Do_set_algorithm
       \/ Do_store

Spec == Init /\ [][Next]_vars

\* the allocate / release interface only
NextAllocFree ==
    /\ nops < MaxOps
    /\ \/ Do_hmm_init
       \/ Do_HmmAlloc(AllocSizes)
       \/ Do_HmmFree(FreeArgs)
       \/ Do_malloc
       \/ Do_free
       \/ Do_store

SpecAllocFree == Init /\ [][NextAllocFree]_vars

\* number of calls in a run of allocations and releases of large blocks
MaxCalls == 5

\* request sizes that fill the first growth increment with two blocks (leaving
\* a remainder of MIN_ALLOC_SIZE), and one that needs both blocks together
CoalesceSizes == {W(524288), W(524152), W(524296)}

\* a caller that allocates large blocks and releases what it holds
NextCoalesce ==
    /\ nops < MaxCalls
    /\ \/ Do_hmm_init
       \/ Do_HmmAlloc(CoalesceSizes)
       \/ Do_HmmFree({l.ptr : l \in live})

SpecCoalesce == Init /\ [][NextCoalesce]_vars

\* sizes of the blocks a caller later resizes: the smallest block, one that
\* can be shrunk, one taken whole from a growth of the arena
ResizedSizes == {W(8), W(128), W(HEAP_EXPAND_SIZE)}

\* a caller that allocates, writes, and resizes what it holds
NextRealloc ==
    /\ nops < MaxOps
    /\ \/ Do_hmm_init
       \/ Do_HmmAlloc(ResizedSizes)
       \/ Do_realloc
       \/ Do_store

SpecRealloc == Init /\ [][NextRealloc]_vars

\* a caller of the malloc family
NextCalloc ==
    /\ nops < MaxOps
    /\ \/ Do_hmm_init
       \/ Do_malloc
       \/ Do_calloc
       \/ Do_free

SpecCalloc == Init /\ [][NextCalloc]_vars

\* request sizes of a caller that never asks for zero bytes
StressSizes == (AllocSizes \ {W(0)}) \cup {W(64)}

\* a run that starts with hmm_init and then only allocates non-zero sizes and
\* releases pointers it holds, each once
NextStress ==
    /\ nops < MaxCalls
    /\ \/ nops = 0 /\ Do_hmm_init
       \/ nops > 0 /\ Do_HmmAlloc(StressSizes)
       \/ nops > 0 /\ Do_HmmFree({l.ptr : l \in live})

SpecStress == Init /\ [][NextStress]_vars

\* request sizes that leave the free list with a smaller block in front of
\* a larger one: the smallest block, half a growth increment, a whole one
FitSizes == {W(8), W(524288), W(HEAP_EXPAND_SIZE)}

\* a caller that allocates under the three fit policies
NextFit ==
    /\ nops < MaxCalls
    /\ \/ Do_hmm_init
       \/ Do_HmmAlloc(FitSizes)
       \/ Do_set_algorithm

SpecFit == Init /\ [][NextFit]_vars

\* request sizes near 2^64: SIZE_MAX, which rounds up to 0; 2^64 - 32, for
\* which adding the header wraps; 2^64 - HEAP_EXPAND_SIZE - 32, for which the
\* growth amount is negative as an intptr_t; and a small one
WrapSizes == {Not(W(0)), Neg(W(HeaderSize)), Neg(W(HEAP_EXPAND_SIZE + HeaderSize)), W(8)}

\* a caller that asks for sizes near the top of size_t
NextWrap ==
    /\ nops < MaxOps
    /\ \/ Do_hmm_init
       \/ Do_HmmAlloc(WrapSizes)

SpecWrap == Init /\ [][NextWrap]_vars

(***************************************************************************)
(* Reading the heap: the free list as hmm_find_free_block walks it, and    *)
(* the blocks of the arena as hmm_coalesce steps from one to the next.     *)
(***************************************************************************)
RECURSIVE FreeListFrom(_, _, _)
FreeListFrom(s, b, seen) ==
    IF b = NULL \/ b \in seen \/ ~Mapped(s, b, HeaderSize) THEN seen
    ELSE FreeListFrom(s, nextOf(s, b), seen \cup {b})

\* the blocks reachable from free_list_head through next
FreeList(s) == FreeListFrom(s, s.free_list_head, {})

RECURSIVE BlocksFrom(_, _, _)
BlocksFrom(s, b, seen) ==
    IF b \in seen \/ ~Mapped(s, b, HeaderSize) THEN seen
    ELSE IF magicOf(s, b) # MAGIC_NUMBER THEN seen
    ELSE BlocksFrom(s, Add(PayloadOf(b), SizeOf(s, b)), seen \cup {b})

\* the blocks laid out in the arena, from its lowest address
ArenaBlocks(s) == BlocksFrom(s, InitialBreak, {})

\* the first byte after block b
BlockEnd(s, b) == Add(PayloadOf(b), SizeOf(s, b))

\* b2 starts where b1 ends
Adjacent(s, b1, b2) == BlockEnd(s, b1) = b2

\* the header before ptr can be read and carries the sentinel
ValidHeader(s, ptr) ==
    /\ Mapped(s, HeaderOf(ptr), HeaderSize)
    /\ magicOf(s, HeaderOf(ptr)) = MAGIC_NUMBER

\* ptr was live when the last call was made: returned, not released, header
\* sentinel intact and free bit clear
WasLivePointer ==
    /\ last.was_live
    /\ ValidHeader(pre, last.ptr)
    /\ ~IsFree(pre, HeaderOf(last.ptr))

LastIsFree == last.op \in {"HmmFree", "free"}
LastIsAlloc == last.op \in {"HmmAlloc", "malloc"}

\* the bytes [a.ptr, a.ptr + a.size) and [b.ptr, b.ptr + b.size) do not meet
Apart(a, b) == Le(Add(a.ptr, a.size), b.ptr) \/ Le(Add(b.ptr, b.size), a.ptr)

(***************************************************************************)
(* Properties of the allocate / release interface.                         *)
(***************************************************************************)

\* C1: every non-null HmmAlloc(s) / malloc(s) with s > 0 returns a payload of
\* at least s bytes inside the arena, and the payload ranges of any two live
\* allocations are disjoint.
C1_DisjointPayloads ==
    fault = "none" =>
       /\ (LastIsAlloc /\ last.ret # NULL /\ last.size # W(0)) =>
             /\ ValidHeader(Cur, last.ret)
             /\ Le(last.size, SizeOf(Cur, HeaderOf(last.ret)))
             /\ Le(Add(last.ret, last.size), brk)
       /\ \A a, b \in live : a.id # b.id => Apart(a, b)

\* C2: HmmFree(p) on a live pointer p sets the free bit of the block whose
\* header precedes p and leaves that block, or a free block that absorbed it,
\* on the free list.
C2_FreeReleasesBlock ==
    (fault = "none" /\ LastIsFree /\ WasLivePointer) =>
       \E c \in FreeList(Cur) :
          /\ IsFree(Cur, c)
          /\ Le(c, HeaderOf(last.ptr))
          /\ Le(Add(last.ptr, SizeOf(pre, HeaderOf(last.ptr))), BlockEnd(Cur, c))

\* C3: a second HmmFree(p) with no allocation since the first records
\* HMM_ERROR_DOUBLE_FREE and changes nothing else: memory (headers, links and
\* payload bytes), the free list head and the arena bounds are as before.
C3_SecondFreeIsDoubleFree ==
    (fault = "none" /\ LastIsFree /\ last.again) =>
       /\ last_error = "HMM_ERROR_DOUBLE_FREE"
       /\ mem = pre.mem
       /\ free_list_head = pre.free_list_head
       /\ heap_start = pre.heap_start
       /\ heap_end = pre.heap_end
       /\ brk = pre.brk

\* the last call was a release of a non-null pointer whose header (readable
\* memory of the arena) did not hold the sentinel
FreedWithoutSentinel ==
    /\ LastIsFree
    /\ last.ptr # NULL
    /\ Mapped(pre, HeaderOf(last.ptr), HeaderSize)
    /\ magicOf(pre, HeaderOf(last.ptr)) # MAGIC_NUMBER

\* C4: HmmFree(p) where the header preceding p does not hold MAGIC_NUMBER
\* records HMM_ERROR_INVALID_POINTER and leaves the free list, every block
\* header (all of memory) and the arena bounds as they were before the call.
C4_BadSentinelRejected ==
    FreedWithoutSentinel =>
       /\ fault = "none"
       /\ last_error = "HMM_ERROR_INVALID_POINTER"
       /\ mem = pre.mem
       /\ free_list_head = pre.free_list_head
       /\ heap_start = pre.heap_start
       /\ heap_end = pre.heap_end
       /\ brk = pre.brk

\* a release of a pointer without sentinel whose header would otherwise read
\* as a block with the free bit set (the caller stored an odd word there)
C4_Witness ==
    /\ FreedWithoutSentinel
    /\ last.op = "HmmFree"
    /\ IsFree(pre, HeaderOf(last.ptr))
    /\ pre.last_error = "HMM_SUCCESS"

\* C5: HmmAlloc(0) and malloc(0) return null and leave last_error as it was
\* before the call.
C5_ZeroSizeKeepsError ==
    (LastIsAlloc /\ last.size = W(0)) =>
       /\ last.ret = NULL
       /\ last_error = pre.last_error

\* C6: when a HmmFree call on a live pointer has returned, no two blocks that
\* are adjacent in the arena both have the free bit set.
C6_NoAdjacentFreeBlocks ==
    (fault = "none" /\ LastIsFree /\ WasLivePointer) =>
       \A b1, b2 \in ArenaBlocks(Cur) :
          Adjacent(Cur, b1, b2) => ~(IsFree(Cur, b1) /\ IsFree(Cur, b2))

\* a and b were live, address-adjacent (a's block ends where b's header
\* begins) and both released before the last call, which asks for more than
\* either block holds but no more than their combined span
FitsOnlyTogether(a, b) ==
    /\ a.was_live /\ b.was_live
    /\ Add(a.ptr, a.size) = HeaderOf(b.ptr)
    /\ Lt(a.size, last.size)
    /\ Lt(b.size, last.size)
    /\ Le(last.size, Add(Add(a.size, b.size), W(HeaderSize)))

\* C7: after two address-adjacent live allocations were released, in either
\* order, a request that fits only in their combined span returns non-null
\* and the arena does not grow (heap_end unchanged).
C7_CoalescedSpanServesRequest ==
    (fault = "none" /\ last.op = "HmmAlloc") =>
       \A a, b \in last.released :
          FitsOnlyTogether(a, b) => (last.ret # NULL /\ heap_end = pre.heap_end)

\* C8: after every completed public operation a block has its free bit set
\* if and only if it is reachable from free_list_head through next links.
C8_FreeBitIffOnFreeList ==
    (fault = "none" /\ last.op \notin {"start", "store"}) =>
       \A b \in ArenaBlocks(Cur) \cup FreeList(Cur) :
          IsFree(Cur, b) <=> b \in FreeList(Cur)

\* C9: no block reachable from free_list_head is a live allocation, each has
\* magic = MAGIC_NUMBER and the free bit set, and the assertions in
\* hmm_find_free_block never fail.
C9_FreeListHoldsOnlyFreeBlocks ==
    /\ fault # "assert"
    /\ fault = "none" =>
          \A b \in FreeList(Cur) :
             /\ magicOf(Cur, b) = MAGIC_NUMBER
             /\ IsFree(Cur, b)
             /\ \A l \in live : l.ptr # PayloadOf(b)

\* C10: every block in the arena has a payload size that is a multiple of
\* ALIGNMENT and at least MIN_ALLOC_SIZE.
C10_BlockSizesAlignedAndFloored ==
    fault = "none" =>
       \A b \in ArenaBlocks(Cur) :
          /\ SizeOf(Cur, b)[1] % ALIGNMENT = 0
          /\ Le(W(MIN_ALLOC_SIZE), SizeOf(Cur, b))

(***************************************************************************)
(* Properties of the arena, the error code and the caller's bytes.         *)
(***************************************************************************)

RECURSIVE TilesFrom(_, _, _)
\* stepping from b by header size + payload size over valid headers ends
\* exactly at heap_end
TilesFrom(s, b, seen) ==
    IF b = s.heap_end THEN TRUE
    ELSE IF b \in seen \/ ~Lt(b, s.heap_end) THEN FALSE
    ELSE IF ~Mapped(s, b, HeaderSize) THEN FALSE
    ELSE IF magicOf(s, b) # MAGIC_NUMBER THEN FALSE
    ELSE TilesFrom(s, BlockEnd(s, b), seen \cup {b})

\* C11: once hmm_init has set heap_start, the blocks tile the arena: the walk
\* from heap_start by header size + payload size visits only valid headers
\* and ends exactly at heap_end.
C11_BlocksTileArena ==
    (fault = "none" /\ heap_start # NULL) => TilesFrom(Cur, heap_start, {})

\* C12: in a run that starts with hmm_init and then only makes HmmAlloc calls
\* with size > 0 that return non-null and HmmFree calls on live pointers,
\* last_error is HMM_SUCCESS after every operation: such a call made while
\* last_error is HMM_SUCCESS (no earlier call recorded an error) leaves it so.
C12_StressRunKeepsSuccess ==
    (/\ fault = "none"
     /\ pre.last_error = "HMM_SUCCESS"
     /\ \/ last.op = "HmmAlloc" /\ last.size # W(0) /\ last.ret # NULL
        \/ last.op = "HmmFree" /\ last.was_live)
    => last_error = "HMM_SUCCESS"

\* the non-zero bytes of memory m inside the caller's allocation l
PayloadBytes(m, l) ==
    [a \in {x \in DOMAIN m : ToInt(l.ptr) <= x /\ x < ToInt(l.ptr) + ToInt(l.size)}
       |-> m[a]]

\* C13: while an allocation of s bytes at p is live, an allocator operation
\* on other pointers (hmm_init, HmmAlloc / malloc, HmmFree / free) writes to
\* no byte of [p, p + s).
C13_PayloadUntouched ==
    (fault = "none" /\ last.op \in {"hmm_init", "HmmAlloc", "malloc", "HmmFree", "free"}) =>
       \A l \in live :
          (l.id < last.id /\ l.ptr # last.ptr) =>
             PayloadBytes(mem, l) = PayloadBytes(pre.mem, l)

\* the last call did what it was asked: an allocating call returned a
\* pointer, a release was given null or a live pointer, hmm_init left an
\* arena, the algorithm was set
Succeeded ==
    \/ last.op \in {"HmmAlloc", "malloc", "calloc", "realloc"} /\ last.ret # NULL
    \/ LastIsFree /\ (last.ptr = NULL \/ WasLivePointer)
    \/ last.op = "hmm_init" /\ heap_start # NULL
    \/ last.op = "hmm_set_allocation_algorithm"

\* C14: last_error is sticky: an operation that does not fail leaves
\* last_error as it was, and no operation resets it to HMM_SUCCESS.
C14_LastErrorSticky ==
    fault = "none" =>
       /\ Succeeded => last_error = pre.last_error
       /\ pre.last_error # "HMM_SUCCESS" => last_error # "HMM_SUCCESS"

(***************************************************************************)
(* Properties of realloc, calloc and hmm_init.                             *)
(***************************************************************************)

\* the last call was realloc(p, n) with n > 0 on a pointer the caller held,
\* whose header carried the sentinel
ReallocOfLive ==
    /\ last.op = "realloc"
    /\ last.ptr # NULL
    /\ last.size # W(0)
    /\ last.was_live
    /\ ValidHeader(pre, last.ptr)

\* the payload size of the block of the last call's pointer, before the call
OldSize == SizeOf(pre, HeaderOf(last.ptr))

\* C15: realloc(p, n) on a live pointer whose block payload size is >= n > 0
\* returns p itself and does not grow the arena.
C15_ReallocInPlaceKeepsPointer ==
    (ReallocOfLive /\ Le(last.size, OldSize)) =>
       /\ fault = "none"
       /\ last.ret = last.ptr
       /\ heap_end = pre.heap_end
       /\ brk = pre.brk

\* an in-place realloc that split the block
C15_Witness ==
    /\ ReallocOfLive
    /\ Le(last.size, OldSize)
    /\ last.ret = last.ptr
    /\ SizeOf(Cur, HeaderOf(last.ptr)) # OldSize

\* the last call was realloc(p, n) on an allocated block with n larger than
\* its payload size, and the allocation of n bytes failed
ReallocFailedToGrow ==
    /\ ReallocOfLive
    /\ ~IsFree(pre, HeaderOf(last.ptr))
    /\ HeaderOf(last.ptr) \notin FreeList(pre)
    /\ Lt(OldSize, last.size)
    /\ malloc(pre, last.size).st.fault = "none"
    /\ malloc(pre, last.size).ret = NULL

\* the block of the last call's pointer as the caller saw it before the call
OldBlock == [ptr |-> last.ptr, size |-> OldSize]

\* C16: when realloc(p, n) needs a new block and the allocation fails, it
\* returns null and the original block is untouched: free bit clear, not in
\* the free list, header and payload bytes as before.
C16_FailedReallocKeepsBlock ==
    ReallocFailedToGrow =>
       /\ fault = "none"
       /\ last.ret = NULL
       /\ ~IsFree(Cur, HeaderOf(last.ptr))
       /\ HeaderOf(last.ptr) \notin FreeList(Cur)
       /\ Rd(mem, HeaderOf(last.ptr), HeaderSize) = Rd(pre.mem, HeaderOf(last.ptr), HeaderSize)
       /\ PayloadBytes(mem, OldBlock) = PayloadBytes(pre.mem, OldBlock)

\* a failed growing realloc of a block holding the caller's data
C16_Witness ==
    /\ ReallocFailedToGrow
    /\ last.ret = NULL
    /\ last_error = "HMM_ERROR_OUT_OF_MEMORY"
    /\ DOMAIN PayloadBytes(pre.mem, OldBlock) # {}

\* what the allocation l holds in memory m: its non-zero bytes by offset
Contents(m, l) == {<<x - ToInt(l.ptr), m[x]>> : x \in DOMAIN PayloadBytes(m, l)}

\* C17: when realloc(p, n) with n larger than p's payload size succeeds, it
\* returns q # p whose first old_size bytes equal the old payload, and the
\* old block is released: a free block of the free list covers it.
C17_GrowingReallocMovesAndFrees ==
    (/\ ReallocOfLive
     /\ ~IsFree(pre, HeaderOf(last.ptr))
     /\ Lt(OldSize, last.size)
     /\ fault = "none"
     /\ last.ret # NULL)
    => /\ last.ret # last.ptr
       /\ Contents(mem, [ptr |-> last.ret, size |-> OldSize]) = Contents(pre.mem, OldBlock)
       /\ \E c \in FreeList(Cur) :
             /\ IsFree(Cur, c)
             /\ Le(c, HeaderOf(last.ptr))
             /\ Le(Add(last.ptr, OldSize), BlockEnd(Cur, c))

\* the last call was realloc(p, n), p non-null and n > 0, where the header
\* before p (readable memory of the arena) did not hold the sentinel
ReallocWithoutSentinel ==
    /\ last.op = "realloc"
    /\ last.ptr # NULL
    /\ last.size # W(0)
    /\ Mapped(pre, HeaderOf(last.ptr), HeaderSize)
    /\ magicOf(pre, HeaderOf(last.ptr)) # MAGIC_NUMBER

\* C18: realloc(p, n) with p non-null, n > 0 and no sentinel in the header
\* before p records HMM_ERROR_INVALID_POINTER and mutates no allocator state:
\* memory, the free list and the arena bounds are as before the call.
C18_ReallocBadSentinelRejected ==
    ReallocWithoutSentinel =>
       /\ fault = "none"
       /\ last_error = "HMM_ERROR_INVALID_POINTER"
       /\ mem = pre.mem
       /\ free_list_head = pre.free_list_head
       /\ heap_start = pre.heap_start
       /\ heap_end = pre.heap_end
       /\ brk = pre.brk

\* the last call was calloc(count, size) with count * size beyond 2^64 - 1
CallocOverflowed ==
    /\ last.op = "calloc"
    /\ mul_overflow(last.ptr, last.size).overflow

\* C19: calloc(count, size) whose product overflows returns null, records
\* HMM_ERROR_OUT_OF_MEMORY and allocates nothing: memory, the free list and
\* the arena bounds are as before the call.
C19_CallocOverflowRejected ==
    CallocOverflowed =>
       /\ fault = "none"
       /\ last.ret = NULL
       /\ last_error = "HMM_ERROR_OUT_OF_MEMORY"
       /\ mem = pre.mem
       /\ free_list_head = pre.free_list_head
       /\ heap_start = pre.heap_start
       /\ heap_end = pre.heap_end
       /\ brk = pre.brk

\* an overflowing calloc whose wrapped product (8) a free block could serve
C19_Witness ==
    /\ CallocOverflowed
    /\ mul_overflow(last.ptr, last.size).res = W(8)
    /\ pre.free_list_head # NULL
    /\ pre.last_error = "HMM_SUCCESS"
    /\ last.ret = NULL

\* the last call was hmm_init, made after an earlier hmm_init had
\* established the arena
InitCalledAgain == last.op = "hmm_init" /\ pre.heap_start # NULL

\* C20: once hmm_init has established the arena, a later hmm_init is a
\* no-op: heap_start, heap_end, free_list_head, every block header (all of
\* memory), the break and last_error are unchanged.
C20_InitIdempotent == InitCalledAgain => Cur = pre

\* a repeated hmm_init while the caller holds an allocation
C20_Witness ==
    /\ InitCalledAgain
    /\ live # {}
    /\ free_list_head # NULL

(***************************************************************************)
(* Properties of splitting, merging, growth and the fit policies.          *)
(***************************************************************************)

\* the last call was realloc(p, n) on an allocated block, off the free list,
\* with n small enough for hmm_split_block to carve a residual block
ReallocSplitInPlace ==
    /\ ReallocOfLive
    /\ ~IsFree(pre, HeaderOf(last.ptr))
    /\ HeaderOf(last.ptr) \notin FreeList(pre)
    /\ Le(last.size, OldSize)
    /\ Le(W(MIN_ALLOC_SIZE + HeaderSize), Sub(OldSize, last.size))

\* C21: an in-place realloc(p, n) that splits the block keeps every block of
\* the free list in the free list and adds exactly one block, the residual
\* at p + n; free_list_head is non-null afterwards.
C21_InPlaceSplitKeepsFreeList ==
    (ReallocSplitInPlace /\ fault = "none") =>
       /\ FreeList(pre) \subseteq FreeList(Cur)
       /\ FreeList(Cur) \ FreeList(pre) = {Add(last.ptr, last.size)}
       /\ free_list_head # NULL

\* hmm_internal_alloc up to its call of hmm_split_block: the block found in
\* the free list for a normalized request n, or grown when none fits
BlockForRequest(s, n) ==
    IF hmm_find_free_block(s, n).ret = NULL /\ hmm_find_free_block(s, n).st.fault = "none"
    THEN hmm_expand_heap(s, n)
    ELSE hmm_find_free_block(s, n)

\* the call hmm_split_block(block, size) made by the last operation, and the
\* state it was made in: by HmmAlloc on the block it found or grew, by
\* realloc on the block of its pointer
SplitCall ==
    IF last.op = "HmmAlloc"
    THEN [st |-> BlockForRequest(pre, Normalize(last.size)).st,
          block |-> BlockForRequest(pre, Normalize(last.size)).ret,
          size |-> Normalize(last.size)]
    ELSE [st |-> pre, block |-> HeaderOf(last.ptr), size |-> last.size]

\* the payload size of the block before the split
SplitPayload == SizeOf(SplitCall.st, SplitCall.block)

\* the last operation called hmm_split_block on a free-list member whose
\* payload covers the size
SplitCalledOnMember ==
    /\ fault = "none"
    /\ \/ last.op = "HmmAlloc" /\ last.size # W(0) /\ last.ret # NULL
       \/ ReallocOfLive /\ Le(last.size, OldSize)
    /\ SplitCall.block \in FreeList(SplitCall.st)
    /\ Le(SplitCall.size, SplitPayload)

\* the address of the residual block of the split
SplitResidual == Add(PayloadOf(SplitCall.block), SplitCall.size)

\* C22: hmm_split_block(block, size) on a free-list member with payload
\* B >= size: if B - size >= MIN_ALLOC_SIZE + header size, a block at
\* block + header size + size with payload B - size - header size, free bit
\* and sentinel is on the free list, and the original block has payload
\* exactly size, free bit clear and is off the free list; otherwise memory
\* is as before and the block's size is B.
C22_SplitBlockContract ==
    SplitCalledOnMember =>
       IF Le(W(MIN_ALLOC_SIZE + HeaderSize), Sub(SplitPayload, SplitCall.size))
       THEN /\ magicOf(Cur, SplitResidual) = MAGIC_NUMBER
            /\ SizeOf(Cur, SplitResidual) = Sub(Sub(SplitPayload, SplitCall.size), W(HeaderSize))
            /\ IsFree(Cur, SplitResidual)
            /\ SplitResidual \in FreeList(Cur)
            /\ SizeOf(Cur, SplitCall.block) = SplitCall.size
            /\ ~IsFree(Cur, SplitCall.block)
            /\ SplitCall.block \notin FreeList(Cur)
       ELSE /\ mem = SplitCall.st.mem
            /\ SizeOf(Cur, SplitCall.block) = SplitPayload

\* C23: after hmm_init(); a = HmmAlloc(8); b = HmmAlloc(64); HmmFree(a);
\* HmmFree(b), and whenever a live block is released right after the live
\* block that ends where its header begins, the two are merged: a free block
\* of the free list starts at or before the first header and extends to the
\* end of the second payload.
C23_AdjacentFreesMerge ==
    (fault = "none" /\ last.op = "HmmFree" /\ WasLivePointer) =>
       \A a \in last.released :
          (a.was_live /\ Add(a.ptr, a.size) = HeaderOf(last.ptr)) =>
             \E c \in FreeList(Cur) :
                /\ IsFree(Cur, c)
                /\ Le(c, HeaderOf(a.ptr))
                /\ Le(Add(last.ptr, OldSize), BlockEnd(Cur, c))

\* the last call was HmmAlloc(s), s > 0, no free block fitted and the system
\* refused the growth
AllocGrowthFailed ==
    /\ last.op = "HmmAlloc"
    /\ last.size # W(0)
    /\ hmm_find_free_block(pre, Normalize(last.size)).st.fault = "none"
    /\ hmm_find_free_block(pre, Normalize(last.size)).ret = NULL
    /\ hmm_sbrk(pre, ExpandSize(Normalize(last.size))).ret = NULL

\* the last call was hmm_init, no arena was established before and the
\* system refused the growth
InitGrowthFailed ==
    /\ last.op = "hmm_init"
    /\ pre.heap_start = NULL
    /\ hmm_sbrk(pre, W(HEAP_EXPAND_SIZE)).ret = NULL

\* C24: when the growth primitive fails during HmmAlloc the call returns
\* null, last_error is HMM_ERROR_OUT_OF_MEMORY, and heap_start, heap_end,
\* free_list_head, the break and every block header (all of memory) are as
\* before the call; the same holds for a failing hmm_init.
C24_FailedGrowthChangesNothing ==
    (AllocGrowthFailed \/ InitGrowthFailed) =>
       /\ fault = "none"
       /\ last.ret = NULL
       /\ last_error = "HMM_ERROR_OUT_OF_MEMORY"
       /\ mem = pre.mem
       /\ heap_start = pre.heap_start
       /\ heap_end = pre.heap_end
       /\ free_list_head = pre.free_list_head
       /\ brk = pre.brk

\* a refused growth while the free list holds a block too small for the request
C24_Witness ==
    /\ AllocGrowthFailed
    /\ pre.free_list_head # NULL
    /\ pre.last_error = "HMM_SUCCESS"
    /\ last.ret = NULL

\* x rounded up to a multiple of ALIGNMENT
RoundedUp(x) == Add(x, W((ALIGNMENT - (x[1] % ALIGNMENT)) % ALIGNMENT))

\* the growth a normalized request n calls for: the larger of HEAP_EXPAND_SIZE
\* and n + header size rounded up to ALIGNMENT
GrowthFor(n) ==
    IF Lt(RoundedUp(Add(n, W(HeaderSize))), W(HEAP_EXPAND_SIZE))
    THEN W(HEAP_EXPAND_SIZE)
    ELSE RoundedUp(Add(n, W(HeaderSize)))

\* the last call was HmmAlloc(s), s > 0, no free block fitted the normalized
\* request and the system granted the growth
AllocGrew ==
    /\ last.op = "HmmAlloc"
    /\ last.size # W(0)
    /\ hmm_find_free_block(pre, Normalize(last.size)).st.fault = "none"
    /\ hmm_find_free_block(pre, Normalize(last.size)).ret = NULL
    /\ hmm_sbrk(pre, ExpandSize(Normalize(last.size))).ret # NULL

\* the allocator's state when hmm_expand_heap has returned, before the split
Grown == BlockForRequest(pre, Normalize(last.size)).st

RECURSIVE FreeSeqFrom(_, _, _)
FreeSeqFrom(s, b, acc) ==
    IF b = NULL \/ ~Mapped(s, b, HeaderSize) \/ (\E i \in 1..Len(acc) : acc[i] = b)
    THEN acc
    ELSE FreeSeqFrom(s, nextOf(s, b), Append(acc, b))

\* the free list in the order hmm_find_free_block walks it
FreeSeq(s) == FreeSeqFrom(s, s.free_list_head, <<>>)

\* the positions in the free list of the blocks whose payload is >= n
Fits(s, n) == {i \in 1..Len(FreeSeq(s)) : Le(n, SizeOf(s, FreeSeq(s)[i]))}

\* the first block in free-list order whose payload is >= n, null if none
FirstFitting(s, n) ==
    IF Fits(s, n) = {} THEN NULL
    ELSE FreeSeq(s)[CHOOSE i \in Fits(s, n) : \A j \in Fits(s, n) : i <= j]

\* the last call was HmmAlloc(s) with s > 0, which searches the free list of
\* the state before the call for the normalized size
SearchedUnder(policy) ==
    /\ last.op = "HmmAlloc"
    /\ last.size # W(0)
    /\ pre.current_algorithm = policy

\* C26: under FIRST_FIT hmm_find_free_block(n) returns the first block in
\* free-list order whose payload is >= n, null exactly when no block of the
\* free list has payload >= n; HmmAlloc returns the payload of the block
\* found and moves the break only when none was found.
C26_FirstFitReturnsFirstFitting ==
    SearchedUnder("FIRST_FIT") =>
       /\ hmm_find_free_block(pre, Normalize(last.size)).st.fault = "none"
       /\ hmm_find_free_block(pre, Normalize(last.size)).ret
             = FirstFitting(pre, Normalize(last.size))
       /\ Fits(pre, Normalize(last.size)) # {}
             => /\ last.ret = PayloadOf(FirstFitting(pre, Normalize(last.size)))
                /\ brk = pre.brk
       /\ brk # pre.brk => Fits(pre, Normalize(last.size)) = {}

\* a search that passes a block too small for the request and returns a
\* later one
C26_Witness ==
    /\ SearchedUnder("FIRST_FIT")
    /\ Len(FreeSeq(pre)) >= 2
    /\ 1 \notin Fits(pre, Normalize(last.size))
    /\ 2 \in Fits(pre, Normalize(last.size))
    /\ last.ret = PayloadOf(FreeSeq(pre)[2])

\* the block the search of the last call returned
Found == hmm_find_free_block(pre, Normalize(last.size)).ret

\* the blocks of the free list whose payload is >= n
Fitting(s, n) == {FreeSeq(s)[i] : i \in Fits(s, n)}

\* C27: under BEST_FIT hmm_find_free_block(n) returns a free-list block of
\* minimum payload among those with payload >= n, under WORST_FIT one of
\* maximum payload among them, in both cases null exactly when no block
\* qualifies; hmm_set_allocation_algorithm changes current_algorithm and
\* nothing else.
C27_BestAndWorstFit ==
    /\ SearchedUnder("BEST_FIT") =>
          /\ hmm_find_free_block(pre, Normalize(last.size)).st.fault = "none"
          /\ Found = NULL <=> Fitting(pre, Normalize(last.size)) = {}
          /\ Found # NULL =>
                /\ Found \in Fitting(pre, Normalize(last.size))
                /\ \A b \in Fitting(pre, Normalize(last.size)) :
                      Le(SizeOf(pre, Found), SizeOf(pre, b))
                /\ last.ret = PayloadOf(Found)
    /\ SearchedUnder("WORST_FIT") =>
          /\ hmm_find_free_block(pre, Normalize(last.size)).st.fault = "none"
          /\ Found = NULL <=> Fitting(pre, Normalize(last.size)) = {}
          /\ Found # NULL =>
                /\ Found \in Fitting(pre, Normalize(last.size))
                /\ \A b \in Fitting(pre, Normalize(last.size)) :
                      Le(SizeOf(pre, b), SizeOf(pre, Found))
                /\ last.ret = PayloadOf(Found)
    /\ last.op = "hmm_set_allocation_algorithm" =>
          /\ current_algorithm \in Algorithms \ {pre.current_algorithm}
          /\ Cur = [pre EXCEPT !.current_algorithm = current_algorithm]

\* a BEST_FIT search that returns a smaller block standing behind a larger
\* one that also fits
C27_Witness ==
    /\ SearchedUnder("BEST_FIT")
    /\ Found # NULL
    /\ Found # FirstFitting(pre, Normalize(last.size))
    /\ Lt(SizeOf(pre, Found), SizeOf(pre, FirstFitting(pre, Normalize(last.size))))
    /\ last.ret = PayloadOf(Found)

\* the last call ran hmm_init: hmm_init itself, or malloc, which calls it first
InitRan == last.op \in {"hmm_init", "malloc"}

\* C28: hmm_init discards no free block: every block that is in the free
\* list when hmm_init starts is in the free list when it returns, also when
\* HmmAlloc calls made before any hmm_init have grown the arena.
C28_InitKeepsFreeBlocks ==
    InitRan =>
       /\ hmm_init(pre).fault = "none"
       /\ FreeList(pre) \subseteq FreeList(hmm_init(pre))

\* rounding size up to ALIGNMENT wraps around, or adding the header size and
\* rounding for the growth amount does: (x + 7) mod 2^64 < x
Wraps(size) ==
    \/ Lt(Add(size, W(ALIGNMENT - 1)), size)
    \/ Lt(Add(Add(Normalize(size), W(HeaderSize)), W(ALIGNMENT - 1)), Normalize(size))

\* C29: HmmAlloc(s) returns null for every s whose rounding up to ALIGNMENT,
\* or whose growth amount, wraps around modulo 2^64: it returns no block with
\* a payload smaller than s, writes nothing outside the arena, and no call
\* of HmmAlloc moves the break or heap_end down.
C29_WrappingSizesReturnNull ==
    last.op = "HmmAlloc" =>
       /\ fault = "none"
       /\ Wraps(last.size) => last.ret = NULL
       /\ last.ret # NULL => Le(last.size, SizeOf(Cur, HeaderOf(last.ret)))
       /\ ~Lt(brk, pre.brk)
       /\ ~Lt(heap_end, pre.heap_end)

\* the free list of s is a finite doubly linked list: the head has no
\* predecessor, every member's successor is null or a member that points back
\* to it, and the walk from the head ends at null (no block occurs twice)
WellFormedFreeList(s) ==
    /\ s.free_list_head # NULL =>
          /\ Mapped(s, s.free_list_head, HeaderSize)
          /\ prevOf(s, s.free_list_head) = NULL
    /\ \A n \in FreeList(s) :
          \/ nextOf(s, n) = NULL
          \/ /\ nextOf(s, n) \in FreeList(s)
             /\ prevOf(s, nextOf(s, n)) = n
    /\ FreeList(s) # {} => \E n \in FreeList(s) : nextOf(s, n) = NULL

\* C30: after every completed public operation the free list is a
\* well-formed finite doubly linked list, no operation has called
\* hmm_remove_from_free_list on a block that was not a member (as the split
\* of realloc's in-place path does with the caller's block), and no scan of
\* the list runs forever.
C30_FreeListWellFormed ==
    /\ fault # "hang"
    /\ fault = "none" => WellFormedFreeList(Cur)
    /\ fault = "none" => ~ReallocSplitInPlace

====
